---- MODULE Spec2Model ----
(***************************************************************************)
(* The DNS message codec of src/server/c/dns/codec.c: the read cursor      *)
(* (pop_int8/16/32), the label, resource record and message decoders, the  *)
(* size computation, the serializer and the header status flags.           *)
(*                                                                         *)
(* Octets are 0..255 and 16-bit values 0..65535.  A 32-bit value is kept   *)
(* as the pair <<high 16 bits, low 16 bits>>, since a ttl of 2^31 or more  *)
(* does not fit the integers of the model checker.                         *)
(***************************************************************************)
EXTENDS Integers, Sequences, FiniteSets, TLC

(***************************************************************************)
(* Bounds of the model.                                                    *)
(***************************************************************************)
\* questions of a message handed to serialize_message
MaxQuestions == 1
\* resource records of such a message, over its three sections together
MaxRecords == 2
\* direct calls of pop_int8/16/32 a caller makes on one cursor
MaxCalls == 3
\* octets of a buffer a caller walks with direct pop calls
MaxCursorLen == 3

(***************************************************************************)
(* Widths of the fields of codec.h (dnsmsg_header_t, dnsmsg_label_t,       *)
(* dnsmsg_question_t, dnsmsg_rr_t), in octets.                             *)
(***************************************************************************)
SizeofHeader == 12
SizeofNameSize == 1
SizeofType == 2
SizeofClass == 2
SizeofTtl == 4
SizeofDataSize == 2

(***************************************************************************)
(* C integer operators on naturals.                                        *)
(***************************************************************************)
RECURSIVE Pow2(_)
Pow2(n) == IF n = 0 THEN 1 ELSE 2 * Pow2(n - 1)

ShiftLeft(x, n) == x * Pow2(n)

ShiftRight(x, n) == x \div Pow2(n)

RECURSIVE BitOr(_, _)
BitOr(a, b) ==
    IF a = 0 THEN b
    ELSE IF b = 0 THEN a
    ELSE (IF a % 2 = 1 \/ b % 2 = 1 THEN 1 ELSE 0) + 2 * BitOr(a \div 2, b \div 2)

RECURSIVE BitAnd(_, _)
BitAnd(a, b) ==
    IF a = 0 \/ b = 0 THEN 0
    ELSE (IF a % 2 = 1 /\ b % 2 = 1 THEN 1 ELSE 0) + 2 * BitAnd(a \div 2, b \div 2)

Min(a, b) == IF a < b THEN a ELSE b

VARIABLES
    evalOrder,    \* the order in which the build evaluates the two operands of
                  \* '|' in pop_int16 (o16) and pop_int32 (o32): "lr" or "rl"
    pc,           \* where the caller is
    buffer,       \* the octets the decoder is handed (buffer_size = Len(buffer))
    cur,          \* the cursor: pos (octets the pointer has advanced),
                  \* size (the remaining-length counter), pops (calls of pop_int8)
    ret,          \* what the last direct pop call returned
    message,      \* the dnsmsg_t interpret_question builds
    sec,          \* the section being read: 0 questions, 1 answers, 2 authorities, 3 additionals
    i,            \* the loop index in that section
    labels,       \* the labels interpret_labels has read so far
    error_flag,   \* the caller's int that interpret_question gets a pointer to
    flag_before,  \* its value when interpret_question was called
    orig,         \* the message handed to serialize_message
    out,          \* what serialize_message produced
    fl            \* the status flag calls: arguments and results

vars == <<evalOrder, pc, buffer, cur, ret, message, sec, i, labels, error_flag,
          flag_before, orig, out, fl>>

(***************************************************************************)
(* The read cursor.                                                        *)
(***************************************************************************)
\* a mutant of pop_int8: the position also advances when the counter is negative
pop_int8_advancing(c) ==
    LET s == c.size - 1
    IN  [value |-> IF c.pos + 1 <= Len(buffer) THEN buffer[c.pos + 1] ELSE 0,
         cur |-> [pos |-> c.pos + 1, size |-> s, pops |-> c.pops + 1]]

pop_int8(c) ==
    LET s == c.size - 1
    IN  IF s >= 0
        THEN [value |-> buffer[c.pos + 1],
              cur |-> [pos |-> c.pos + 1, size |-> s, pops |-> c.pops + 1]]
        ELSE [value |-> 0,
              cur |-> [pos |-> c.pos, size |-> s, pops |-> c.pops + 1]]

\* The two calls of pop_int8 are the operands of '|': C leaves their order to
\* the build.  "lr": the left operand (shifted by 8) is evaluated first.
pop_int16(c) ==
    LET first == pop_int8(c)
        second == pop_int8(first.cur)
    IN  IF evalOrder.o16 = "lr"
        THEN [value |-> BitOr(ShiftLeft(first.value, 8), second.value) % 65536,
              cur |-> second.cur]
        ELSE [value |-> BitOr(ShiftLeft(second.value, 8), first.value) % 65536,
              cur |-> second.cur]

\* As pop_int16, with the order of the two calls of pop_int16 left to the
\* build.  The left operand is an int shifted by 16: the result is its
\* two's complement bit pattern, kept as <<high, low>>.
pop_int32(c) ==
    LET first == pop_int16(c)
        second == pop_int16(first.cur)
    IN  IF evalOrder.o32 = "lr"
        THEN [value |-> <<first.value, second.value>>, cur |-> second.cur]
        ELSE [value |-> <<second.value, first.value>>, cur |-> second.cur]

\* n calls of pop_int8 in a row (the for loops over name_size and data_size):
\* the first half of the calls, then the rest from the cursor they leave.
\* Each half is bound as an element of a one-element set, so that it is
\* evaluated once.
RECURSIVE pop_octets(_, _)
pop_octets(c, n) ==
    IF n = 0 THEN [value |-> <<>>, cur |-> c]
    ELSE IF n = 1 THEN [value |-> <<pop_int8(c).value>>, cur |-> pop_int8(c).cur]
    ELSE CHOOSE r \in UNION {{[value |-> a.value \o b.value, cur |-> b.cur] :
                                 b \in {pop_octets(a.cur, n - (n \div 2))}} :
                             a \in {pop_octets(c, n \div 2)}} : TRUE

(***************************************************************************)
(* Sizes.                                                                  *)
(***************************************************************************)
\* The arrays are read up to the count given, as the code reads them.
RECURSIVE calc_labels_size_from(_, _, _)
calc_labels_size_from(lbls, labels_size, k) ==
    IF k > labels_size THEN 0
    ELSE SizeofNameSize + lbls[k].name_size + calc_labels_size_from(lbls, labels_size, k + 1)

\* a mutant of calc_labels_size: the terminating null octet is not counted
calc_labels_size_no_null(lbls, labels_size) ==
    calc_labels_size_from(lbls, labels_size, 1)

calc_labels_size(lbls, labels_size) ==
    1 + calc_labels_size_from(lbls, labels_size, 1)

RECURSIVE calc_resource_records_size_from(_, _, _)
calc_resource_records_size_from(rrs, amount, k) ==
    IF k > amount THEN 0
    ELSE calc_labels_size(rrs[k].labels, rrs[k].labels_size)
         + SizeofType + SizeofClass + SizeofTtl + SizeofDataSize
         + rrs[k].data_size
         + calc_resource_records_size_from(rrs, amount, k + 1)

calc_resource_records_size(rrs, amount) ==
    calc_resource_records_size_from(rrs, amount, 1)

RECURSIVE calc_questions_size_from(_, _, _)
calc_questions_size_from(qs, amount, k) ==
    IF k > amount THEN 0
    ELSE calc_labels_size(qs[k].labels, qs[k].labels_size)
         + SizeofType + SizeofClass
         + calc_questions_size_from(qs, amount, k + 1)

calc_message_size(m) ==
    SizeofHeader
    + calc_questions_size_from(m.questions, m.header.query_count, 1)
    + calc_resource_records_size(m.answers, m.header.answer_count)
    + calc_resource_records_size(m.authorities, m.header.authority_count)
    + calc_resource_records_size(m.additionals, m.header.additional_count)

(***************************************************************************)
(* The write side.  w = [bytes, index, size, oob]: the octets written so   *)
(* far, the write index, the allocated size and whether a write landed     *)
(* outside the allocation.                                                 *)
(***************************************************************************)
append_int8(w, value) ==
    IF w.index < w.size
    THEN [w EXCEPT !.bytes = Append(w.bytes, value % 256), !.index = w.index + 1]
    ELSE [w EXCEPT !.oob = TRUE, !.index = w.index + 1]

append_int16(w, value) ==
    append_int8(append_int8(w, ShiftRight(value, 8)), BitAnd(value, 255))

\* value >> 16 and value & 65535 of <<high, low>>
append_int32(w, value) ==
    append_int16(append_int16(w, value[1]), value[2])

RECURSIVE append_octets(_, _, _, _)
append_octets(w, octets, n, k) ==
    IF k > n THEN w
    ELSE append_octets(append_int8(w, octets[k]), octets, n, k + 1)

RECURSIVE append_labels_from(_, _, _, _)
append_labels_from(w, lbls, labels_size, k) ==
    IF k > labels_size THEN w
    ELSE append_labels_from(
             append_octets(append_int8(w, lbls[k].name_size),
                           lbls[k].name, lbls[k].name_size, 1),
             lbls, labels_size, k + 1)

\* a mutant of append_labels: no null octet after an empty list
append_labels_no_null(w, lbls, labels_size) ==
    IF labels_size = 0 THEN w
    ELSE append_int8(append_labels_from(w, lbls, labels_size, 1), 0)

append_labels(w, lbls, labels_size) ==
    append_int8(append_labels_from(w, lbls, labels_size, 1), 0)

(***************************************************************************)
(* The header status flags.                                                *)
(***************************************************************************)
encode_status_flags(qr, opcode, aa, tc, rd, ra, rcode) ==
    LET z == 0
    IN  BitOr(ShiftLeft(qr, 15),
        BitOr(ShiftLeft(opcode, 11),
        BitOr(ShiftLeft(aa, 10),
        BitOr(ShiftLeft(tc, 9),
        BitOr(ShiftLeft(rd, 8),
        BitOr(ShiftLeft(ra, 7),
        BitOr(ShiftLeft(z, 4), rcode))))))) % 65536

\* a mutant of decode_status_flags: the opcode is masked with 7
decode_status_flags_opcode3(status_flags) ==
    [qr |-> BitAnd(ShiftRight(status_flags, 15), 1),
     opcode |-> BitAnd(ShiftRight(status_flags, 11), 7),
     aa |-> BitAnd(ShiftRight(status_flags, 10), 1),
     tc |-> BitAnd(ShiftRight(status_flags, 9), 1),
     rd |-> BitAnd(ShiftRight(status_flags, 8), 1),
     ra |-> BitAnd(ShiftRight(status_flags, 7), 1),
     rcode |-> BitAnd(status_flags, 15)]

decode_status_flags(status_flags) ==
    [qr |-> BitAnd(ShiftRight(status_flags, 15), 1),
     opcode |-> BitAnd(ShiftRight(status_flags, 11), 15),
     aa |-> BitAnd(ShiftRight(status_flags, 10), 1),
     tc |-> BitAnd(ShiftRight(status_flags, 9), 1),
     rd |-> BitAnd(ShiftRight(status_flags, 8), 1),
     ra |-> BitAnd(ShiftRight(status_flags, 7), 1),
     rcode |-> BitAnd(status_flags, 15)]

\* a mutant of is_truncated: the word is shifted by 8
is_truncated_rd(m) == BitAnd(ShiftRight(m.header.status_flags, 8), 1)

is_truncated(m) == BitAnd(ShiftRight(m.header.status_flags, 9), 1)

(***************************************************************************)
(* The messages and buffers the callers hand in.                           *)
(***************************************************************************)
Label(octets) == [name_size |-> Len(octets), name |-> octets]

\* "example" "com"
ExampleCom == <<Label(<<101, 120, 97, 109, 112, 108, 101>>), Label(<<99, 111, 109>>)>>

Question(name, type, class) ==
    [labels |-> name, labels_size |-> Len(name), type |-> type, class |-> class]

Record(name, type, class, ttl, data) ==
    [labels |-> name, labels_size |-> Len(name), type |-> type, class |-> class,
     ttl |-> ttl, data_size |-> Len(data), data |-> data]

QuestionSet == {Question(ExampleCom, 1, 1), Question(<<>>, 255, 1)}

RecordSet ==
    {Record(<<>>, 2, 1, <<0, 60>>, <<>>),
     Record(<<Label(<<3, 0>>)>>, 1, 1, <<32769, 2>>, <<10, 0>>)}

SeqsUpTo(S, n) == UNION {[1..k -> S] : k \in 0..n}

\* structurally valid messages: each count is the length of its section
Msg(id, status_flags, qs, an, au, ad) ==
    [header |-> [id |-> id, status_flags |-> status_flags,
                 query_count |-> Len(qs), answer_count |-> Len(an),
                 authority_count |-> Len(au), additional_count |-> Len(ad)],
     questions |-> qs, answers |-> an, authorities |-> au, additionals |-> ad]

Messages ==
    {Msg(4660, 256, qs, an, au, ad) :
        qs \in SeqsUpTo(QuestionSet, MaxQuestions),
        <<an, au, ad>> \in
            {t \in SeqsUpTo(RecordSet, MaxRecords) \X SeqsUpTo(RecordSet, MaxRecords)
                    \X SeqsUpTo(RecordSet, MaxRecords) :
                Len(t[1]) + Len(t[2]) + Len(t[3]) <= MaxRecords}}

NoMessage ==
    [header |-> [id |-> 0, status_flags |-> 0, query_count |-> 0, answer_count |-> 0,
                 authority_count |-> 0, additional_count |-> 0],
     questions |-> <<>>, answers |-> <<>>, authorities |-> <<>>, additionals |-> <<>>]

NoOutput == [bytes |-> <<>>, index |-> 0, size |-> 0, oob |-> FALSE]

\* what the transport hands in: two wire images, cut short at any length, or
\* with one octet raised by one
QueryWire ==
    <<18, 52, 1, 0, 0, 1, 0, 0, 0, 0, 0, 0,
      7, 101, 120, 97, 109, 112, 108, 101, 3, 99, 111, 109, 0, 0, 1, 0, 1>>

\* one question, one answer with two octets of data, one additional record
ResponseWire ==
    <<0, 7, 129, 128, 0, 1, 0, 1, 0, 0, 0, 1,
      2, 3, 0, 0, 0, 1, 0, 1,
      2, 3, 0, 0, 0, 1, 0, 1, 0, 0, 0, 60, 0, 2, 10, 0,
      0, 0, 2, 0, 1, 128, 1, 0, 2, 0, 0>>

Prefixes(w) == {SubSeq(w, 1, n) : n \in 0..Len(w)}

Raised(w) == {[w EXCEPT ![p] = (w[p] + 1) % 256] : p \in 1..Len(w)}

ReceivedBuffers == Prefixes(QueryWire) \cup Prefixes(ResponseWire) \cup Raised(ResponseWire)

\* A build that evaluates the right operand of pop_int16 first reads a count
\* of 1 as 256 and walks 256 entries: such builds are explored on the
\* messages of at most one entry and on the buffers cut from QueryWire.
Entries(m) ==
    Len(m.questions) + Len(m.answers) + Len(m.authorities) + Len(m.additionals)

MessagesFor(order) ==
    IF order.o16 = "lr" THEN Messages ELSE {m \in Messages : Entries(m) <= 1}

ReceivedBuffersFor(order) ==
    IF order.o16 = "lr" THEN ReceivedBuffers ELSE Prefixes(QueryWire)

CursorOctets == {0, 1, 128}

CursorBuffers == SeqsUpTo(CursorOctets, MaxCursorLen)

Orders == [o16 : {"lr", "rl"}, o32 : {"lr", "rl"}]

NoCursor == [pos |-> 0, size |-> 0, pops |-> 0]

NoReturn == [op |-> "none", value |-> 0, from |-> NoCursor, calls |-> 0]

NoFlags ==
    [op |-> "none", args |-> decode_status_flags(0), word |-> 0,
     decoded |-> decode_status_flags(0), truncated |-> 0]

Bits == {0, 1}

(***************************************************************************)
(* The state after construction: a caller about to serialize a message and *)
(* decode the result, a caller that received a buffer, a caller walking a  *)
(* buffer with the pop functions, or a caller of the status flag           *)
(* functions (where the order of the pop calls plays no part).             *)
(***************************************************************************)
InitCommon ==
    /\ ret = NoReturn
    /\ message = NoMessage
    /\ sec = 0
    /\ i = 0
    /\ labels = <<>>
    /\ out = NoOutput
    /\ fl = NoFlags

InitSerialize ==
    /\ pc = "serialize"
    /\ evalOrder \in Orders
    /\ orig \in MessagesFor(evalOrder)
    /\ buffer = <<>>
    /\ cur = NoCursor
    /\ error_flag = 0
    /\ flag_before = 0

InitReceived ==
    /\ pc = "header"
    /\ evalOrder \in Orders
    /\ orig = NoMessage
    /\ buffer \in ReceivedBuffersFor(evalOrder)
    /\ cur = [pos |-> 0, size |-> Len(buffer), pops |-> 0]
    /\ error_flag \in {0, 1}
    /\ flag_before = error_flag

InitCursor ==
    /\ pc = "cursor"
    /\ evalOrder \in Orders
    /\ orig = NoMessage
    /\ buffer \in CursorBuffers
    /\ cur = [pos |-> 0, size |-> Len(buffer), pops |-> 0]
    /\ error_flag = 0
    /\ flag_before = 0

InitFlags ==
    /\ pc = "flags"
    /\ evalOrder = [o16 |-> "lr", o32 |-> "lr"]
    /\ orig = NoMessage
    /\ buffer = <<>>
    /\ cur = NoCursor
    /\ error_flag = 0
    /\ flag_before = 0

Init == InitCommon /\ (InitSerialize \/ InitReceived \/ InitCursor \/ InitFlags)

(***************************************************************************)
(* The loops over the four sections of a message, shared by the decoder    *)
(* and the serializer: both run them in the order of the header counts.    *)
(***************************************************************************)
Count(hdr, s) ==
    CASE s = 0 -> hdr.query_count
      [] s = 1 -> hdr.answer_count
      [] s = 2 -> hdr.authority_count
      [] OTHER -> hdr.additional_count

\* the first section from s on whose loop body runs; 4 when none is left
RECURSIVE FirstSection(_, _)
FirstSection(hdr, s) ==
    IF s > 3 THEN 4
    ELSE IF Count(hdr, s) > 0 THEN s
    ELSE FirstSection(hdr, s + 1)

\* after the loop body of entry k of section s: the next entry, or the end
Advance(hdr, s, k) ==
    IF k + 1 < Count(hdr, s) THEN <<s, k + 1>> ELSE <<FirstSection(hdr, s + 1), 0>>

Section(m, s) ==
    CASE s = 0 -> m.questions
      [] s = 1 -> m.answers
      [] s = 2 -> m.authorities
      [] OTHER -> m.additionals

(***************************************************************************)
(* serialize_message, one step for the allocation and the header, one per  *)
(* question and one per resource record, and the hand-over of its buffer   *)
(* and size to interpret_question.  Octets of the allocation that were     *)
(* never written hold whatever malloc left there.                          *)
(***************************************************************************)
serialize_message ==
    /\ pc = "serialize"
    /\ LET w0 == [bytes |-> <<>>, index |-> 0, size |-> calc_message_size(orig),
                  oob |-> FALSE]
           w1 == append_int16(w0, orig.header.id)
           w2 == append_int16(w1, orig.header.status_flags)
           w3 == append_int16(w2, orig.header.query_count)
           w4 == append_int16(w3, orig.header.answer_count)
           w5 == append_int16(w4, orig.header.authority_count)
       IN  out' = append_int16(w5, orig.header.additional_count)
    /\ sec' = FirstSection(orig.header, 0)
    /\ i' = 0
    /\ pc' = IF FirstSection(orig.header, 0) = 4 THEN "serialized" ELSE "append"
    /\ UNCHANGED <<evalOrder, buffer, cur, ret, message, labels, error_flag,
                   flag_before, orig, fl>>

\* the call of append_labels that opens the body of the questions loop and
\* of the loop of append_resource_records
AppendLabels ==
    /\ pc = "append"
    /\ LET e == Section(orig, sec)[i + 1]
       IN  out' = append_labels(out, e.labels, e.labels_size)
    /\ pc' = "append_tail"
    /\ UNCHANGED <<evalOrder, buffer, cur, ret, message, sec, i, labels, error_flag,
                   flag_before, orig, fl>>

\* the rest of the body of the questions loop
SerializeQuestion ==
    /\ pc = "append_tail"
    /\ sec = 0
    /\ LET q == orig.questions[i + 1]
           q1 == append_int16(out, q.type)
           nxt == Advance(orig.header, sec, i)
       IN  /\ out' = append_int16(q1, q.class)
           /\ sec' = nxt[1]
           /\ i' = nxt[2]
           /\ pc' = IF nxt[1] = 4 THEN "serialized" ELSE "append"
    /\ UNCHANGED <<evalOrder, buffer, cur, ret, message, labels, error_flag,
                   flag_before, orig, fl>>

\* the rest of the body of the loop of append_resource_records
append_resource_records ==
    /\ pc = "append_tail"
    /\ sec \in 1..3
    /\ LET r == Section(orig, sec)[i + 1]
           r1 == append_int16(out, r.type)
           r2 == append_int16(r1, r.class)
           r3 == append_int32(r2, r.ttl)
           r4 == append_int16(r3, r.data_size)
           nxt == Advance(orig.header, sec, i)
       IN  /\ out' = append_octets(r4, r.data, r.data_size, 1)
           /\ sec' = nxt[1]
           /\ i' = nxt[2]
           /\ pc' = IF nxt[1] = 4 THEN "serialized" ELSE "append"
    /\ UNCHANGED <<evalOrder, buffer, cur, ret, message, labels, error_flag,
                   flag_before, orig, fl>>

DecodeSerialized ==
    /\ pc = "serialized"
    /\ \E fill \in {0, 255} :
          buffer' = out.bytes \o [k \in 1..(out.size - Len(out.bytes)) |-> fill]
    /\ cur' = [pos |-> 0, size |-> out.size, pops |-> 0]
    /\ pc' = "header"
    /\ sec' = 0
    /\ i' = 0
    /\ UNCHANGED <<evalOrder, ret, message, labels, error_flag, flag_before, orig,
                   out, fl>>

(***************************************************************************)
(* interpret_question, one step per header, per turn of the while loop of  *)
(* interpret_labels, per question and per resource record.                 *)
(***************************************************************************)
\* Each value read is bound with \E over a one-element set, in the order of
\* the statements of the code.
ReadHeader ==
    /\ pc = "header"
    /\ \E id \in {pop_int16(cur)} :
       \E status_flags \in {pop_int16(id.cur)} :
       \E query_count \in {pop_int16(status_flags.cur)} :
       \E answer_count \in {pop_int16(query_count.cur)} :
       \E authority_count \in {pop_int16(answer_count.cur)} :
       \E additional_count \in {pop_int16(authority_count.cur)} :
          LET hdr == [id |-> id.value, status_flags |-> status_flags.value,
                      query_count |-> query_count.value,
                      answer_count |-> answer_count.value,
                      authority_count |-> authority_count.value,
                      additional_count |-> additional_count.value]
          IN  /\ message' = [NoMessage EXCEPT !.header = hdr]
              /\ cur' = additional_count.cur
              /\ sec' = FirstSection(hdr, 0)
              /\ pc' = IF FirstSection(hdr, 0) = 4 THEN "check" ELSE "labels"
    /\ i' = 0
    /\ labels' = <<>>
    /\ UNCHANGED <<evalOrder, buffer, ret, error_flag, flag_before, orig, out, fl>>

\* a mutant of interpret_labels: a zero length octet is looked at but not
\* taken out of the buffer, and the loop does not end
interpret_labels_peek ==
    /\ pc = "labels"
    /\ \E next_size \in {pop_int8(cur)} :
          IF next_size.value > 0
          THEN \E name \in {pop_octets(next_size.cur, next_size.value)} :
                  /\ labels' = Append(labels, [name_size |-> next_size.value,
                                               name |-> name.value])
                  /\ cur' = name.cur
                  /\ pc' = "labels"
          ELSE /\ labels' = labels
               /\ cur' = cur
               /\ pc' = "labels"
    /\ UNCHANGED <<evalOrder, buffer, ret, message, sec, i, error_flag, flag_before,
                   orig, out, fl>>

\* one evaluation of the condition of the while loop, and its body
interpret_labels ==
    /\ pc = "labels"
    /\ \E next_size \in {pop_int8(cur)} :
          IF next_size.value > 0
          THEN \E name \in {pop_octets(next_size.cur, next_size.value)} :
                  /\ labels' = Append(labels, [name_size |-> next_size.value,
                                               name |-> name.value])
                  /\ cur' = name.cur
                  /\ pc' = "labels"
          ELSE /\ labels' = labels
               /\ cur' = next_size.cur
               /\ pc' = "tail"
    /\ UNCHANGED <<evalOrder, buffer, ret, message, sec, i, error_flag, flag_before,
                   orig, out, fl>>

\* the rest of the body of the questions loop, after interpret_labels returned
InterpretQuestionEntry ==
    /\ pc = "tail"
    /\ sec = 0
    /\ \E type \in {pop_int16(cur)} :
       \E class \in {pop_int16(type.cur)} :
          LET q == [labels |-> labels, labels_size |-> Len(labels) % 65536,
                    type |-> type.value, class |-> class.value]
              nxt == Advance(message.header, sec, i)
          IN  /\ message' = [message EXCEPT !.questions = Append(@, q)]
              /\ cur' = class.cur
              /\ sec' = nxt[1]
              /\ i' = nxt[2]
              /\ pc' = IF nxt[1] = 4 THEN "check" ELSE "labels"
    /\ labels' = <<>>
    /\ UNCHANGED <<evalOrder, buffer, ret, error_flag, flag_before, orig, out, fl>>

\* the rest of the body of the loop of interpret_rr
interpret_rr ==
    /\ pc = "tail"
    /\ sec \in 1..3
    /\ \E type \in {pop_int16(cur)} :
       \E class \in {pop_int16(type.cur)} :
       \E ttl \in {pop_int32(class.cur)} :
       \E data_size \in {pop_int16(ttl.cur)} :
       \E data \in {pop_octets(data_size.cur, data_size.value)} :
          LET rr == [labels |-> labels, labels_size |-> Len(labels) % 65536,
                     type |-> type.value, class |-> class.value, ttl |-> ttl.value,
                     data_size |-> data_size.value, data |-> data.value]
              nxt == Advance(message.header, sec, i)
          IN  /\ message' =
                    CASE sec = 1 -> [message EXCEPT !.answers = Append(@, rr)]
                      [] sec = 2 -> [message EXCEPT !.authorities = Append(@, rr)]
                      [] OTHER -> [message EXCEPT !.additionals = Append(@, rr)]
              /\ cur' = data.cur
              /\ sec' = nxt[1]
              /\ i' = nxt[2]
              /\ pc' = IF nxt[1] = 4 THEN "check" ELSE "labels"
    /\ labels' = <<>>
    /\ UNCHANGED <<evalOrder, buffer, ret, error_flag, flag_before, orig, out, fl>>

\* a mutant of InterpretQuestionReturn: the check is off by one
InterpretQuestionReturnLate ==
    /\ pc = "check"
    /\ error_flag' = IF cur.size < -1 THEN 1 ELSE error_flag
    /\ pc' = "done"
    /\ UNCHANGED <<evalOrder, buffer, cur, ret, message, sec, i, labels, flag_before,
                   orig, out, fl>>

\* the check of buffer_size after the last section, and the return
InterpretQuestionReturn ==
    /\ pc = "check"
    /\ error_flag' = IF cur.size < 0 THEN 1 ELSE error_flag
    /\ pc' = "done"
    /\ UNCHANGED <<evalOrder, buffer, cur, ret, message, sec, i, labels, flag_before,
                   orig, out, fl>>

(***************************************************************************)
(* A caller that calls the pop functions itself.                           *)
(***************************************************************************)
PopInt8 ==
    /\ pc = "cursor"
    /\ ret.calls < MaxCalls
    /\ LET p == pop_int8(cur)
       IN  /\ ret' = [op |-> "pop_int8", value |-> p.value, from |-> cur,
                      calls |-> ret.calls + 1]
           /\ cur' = p.cur
    /\ UNCHANGED <<evalOrder, pc, buffer, message, sec, i, labels, error_flag,
                   flag_before, orig, out, fl>>

PopInt16 ==
    /\ pc = "cursor"
    /\ ret.calls < MaxCalls
    /\ LET p == pop_int16(cur)
       IN  /\ ret' = [op |-> "pop_int16", value |-> p.value, from |-> cur,
                      calls |-> ret.calls + 1]
           /\ cur' = p.cur
    /\ UNCHANGED <<evalOrder, pc, buffer, message, sec, i, labels, error_flag,
                   flag_before, orig, out, fl>>

PopInt32 ==
    /\ pc = "cursor"
    /\ ret.calls < MaxCalls
    /\ LET p == pop_int32(cur)
       IN  /\ ret' = [op |-> "pop_int32", value |-> p.value, from |-> cur,
                      calls |-> ret.calls + 1]
           /\ cur' = p.cur
    /\ UNCHANGED <<evalOrder, pc, buffer, message, sec, i, labels, error_flag,
                   flag_before, orig, out, fl>>

(***************************************************************************)
(* A caller of the status flag functions.                                  *)
(***************************************************************************)
EncodeStatusFlags ==
    /\ pc = "flags"
    /\ \E qr \in Bits, opcode \in 0..15, aa \in Bits, tc \in Bits, rd \in Bits,
          ra \in Bits, rcode \in 0..15 :
          fl' = [fl EXCEPT !.op = "encode",
                           !.args = [qr |-> qr, opcode |-> opcode, aa |-> aa, tc |-> tc,
                                     rd |-> rd, ra |-> ra, rcode |-> rcode],
                           !.word = encode_status_flags(qr, opcode, aa, tc, rd, ra, rcode)]
    /\ pc' = "flags_encoded"
    /\ UNCHANGED <<evalOrder, buffer, cur, ret, message, sec, i, labels, error_flag,
                   flag_before, orig, out>>

DecodeStatusFlags ==
    /\ pc = "flags_encoded"
    /\ fl' = [fl EXCEPT !.op = "decode", !.decoded = decode_status_flags(fl.word)]
    /\ pc' = "flags_done"
    /\ UNCHANGED <<evalOrder, buffer, cur, ret, message, sec, i, labels, error_flag,
                   flag_before, orig, out>>

\* is_truncated of a message with any 16-bit status word
IsTruncated ==
    /\ pc = "flags"
    /\ \E status_flags \in 0..65535 :
          /\ message' = [message EXCEPT !.header.status_flags = status_flags]
          /\ fl' = [fl EXCEPT !.op = "is_truncated", !.word = status_flags,
                              !.truncated = is_truncated(message')]
    /\ pc' = "flags_done"
    /\ UNCHANGED <<evalOrder, buffer, cur, ret, sec, i, labels, error_flag,
                   flag_before, orig, out>>

Next ==
    \/ serialize_message
    \/ AppendLabels
    \/ SerializeQuestion
    \/ append_resource_records
    \/ DecodeSerialized
    \/ ReadHeader
    \/ interpret_labels
    \/ InterpretQuestionEntry
    \/ interpret_rr
    \/ InterpretQuestionReturn
    \/ PopInt8
    \/ PopInt16
    \/ PopInt32
    \/ EncodeStatusFlags
    \/ DecodeStatusFlags
    \/ IsTruncated

Spec == Init /\ [][Next]_vars

\* interpret_question on a received buffer.  It is straight-line code with
\* loops and does not wait for anything: a step that can be taken is taken.
Interpret ==
    \/ ReadHeader
    \/ interpret_labels
    \/ InterpretQuestionEntry
    \/ interpret_rr
    \/ InterpretQuestionReturn

InitDecode == InitCommon /\ InitReceived

DecodeSpec == InitDecode /\ [][Interpret]_vars /\ WF_vars(Interpret)

(***************************************************************************)
(* What the spec says of a message, computed from the sequences themselves *)
(* and not from the count and size fields.                                 *)
(***************************************************************************)
RECURSIVE LabelOctets(_)
LabelOctets(name) ==
    IF name = <<>> THEN 0 ELSE 1 + Len(Head(name).name) + LabelOctets(Tail(name))

LabelListSize(name) == 1 + LabelOctets(name)

RECURSIVE QuestionsSize(_)
QuestionsSize(qs) ==
    IF qs = <<>> THEN 0 ELSE LabelListSize(Head(qs).labels) + 4 + QuestionsSize(Tail(qs))

RECURSIVE RecordsSize(_)
RecordsSize(rrs) ==
    IF rrs = <<>> THEN 0
    ELSE LabelListSize(Head(rrs).labels) + 10 + Len(Head(rrs).data) + RecordsSize(Tail(rrs))

ComputeSize(m) ==
    12 + QuestionsSize(m.questions)
       + RecordsSize(m.answers \o m.authorities \o m.additionals)

Serializing == pc \in {"append", "append_tail", "serialized"}

RoundTripped == pc = "done" /\ out.size > 0

TotalCount(hdr) ==
    hdr.query_count + hdr.answer_count + hdr.authority_count + hdr.additional_count

(***************************************************************************)
(* The claims.                                                             *)
(***************************************************************************)

\* C1: a structurally valid message that is serialized and then decoded by
\* interpret_question comes back structurally equal: header, questions,
\* answers, authorities and additionals, in order.
RoundTrip == RoundTripped => message = orig

\* C2: serialize_message allocates calc_message_size(m) octets, which is the
\* size the spec computes; every write lands inside the allocation, the index
\* counts the octets written, and it equals the size when the last section
\* has been written.
SizeCorrectness ==
    Serializing =>
        /\ out.size = ComputeSize(orig)
        /\ ~out.oob
        /\ out.index = Len(out.bytes)
        /\ out.index <= out.size
        /\ pc = "serialized" => out.index = out.size

SizeCorrectnessWitness ==
    /\ pc = "serialized"
    /\ Len(orig.questions) = 1
    /\ Len(orig.answers) = 1
    /\ Len(orig.additionals) = 1
    /\ out.index = out.size
    /\ out.index > 40

\* C3: when the walk of the header, the questions and the records pops more
\* octets than the buffer holds, interpret_question returns with the flag 1.
TruncationDetected ==
    (pc = "done" /\ cur.pops > Len(buffer)) => error_flag = 1

TruncationDetectedWitness ==
    /\ pc = "done"
    /\ orig = NoMessage
    /\ Len(buffer) > 12
    /\ cur.pops > Len(buffer)
    /\ flag_before = 0
    /\ error_flag = 1

\* C4: when interpret_question has returned, the flag is set exactly when the
\* remaining-length counter is negative, whatever the flag held before.
FlagIffNegative ==
    pc = "done" => (error_flag = 1 <=> cur.size < 0)

\* C5: decode_status_flags of encode_status_flags gives back the seven
\* values, and bits 4..6 of the encoded word are 0.
FlagsRoundTrip ==
    fl.op = "decode" => (fl.decoded = fl.args /\ BitAnd(fl.word, 112) = 0)

FlagsRoundTripWitness ==
    /\ fl.op = "decode"
    /\ fl.args = [qr |-> 1, opcode |-> 15, aa |-> 0, tc |-> 1, rd |-> 0, ra |-> 1,
                  rcode |-> 15]
    /\ fl.word = 64143
    /\ fl.decoded.opcode = 15

\* C6: append_labels ends the name with a zero octet; for a name of zero
\* labels it writes that one octet only and moves the index by 1, and
\* calc_labels_size of that name is 1.
TerminatorInvariant ==
    [][(pc = "append" /\ pc' = "append_tail") =>
          LET e == Section(orig, sec)[i + 1]
          IN  /\ Len(out'.bytes) > Len(out.bytes)
              /\ out'.bytes[Len(out'.bytes)] = 0
              /\ e.labels_size = 0 =>
                    /\ out'.bytes = Append(out.bytes, 0)
                    /\ out'.index = out.index + 1
                    /\ calc_labels_size(e.labels, e.labels_size) = 1]_vars

TerminatorInvariantWitness ==
    /\ pc = "append_tail"
    /\ Section(orig, sec)[i + 1].labels_size = 0
    /\ out.index = 13
    /\ out.bytes[13] = 0

\* C7: is_truncated is bit 9 of the status word, as 0 or 1, and does not
\* change when any other bit of the word is flipped.
FlipBit(w, k) == IF BitAnd(w, Pow2(k)) = 0 THEN w + Pow2(k) ELSE w - Pow2(k)

TruncatedIsBitNine ==
    fl.op = "is_truncated" =>
        /\ fl.truncated = (IF fl.word % 1024 >= 512 THEN 1 ELSE 0)
        /\ \A k \in (0..15) \ {9} :
              is_truncated([message EXCEPT !.header.status_flags = FlipBit(fl.word, k)])
                  = fl.truncated

TruncatedIsBitNineWitness ==
    /\ fl.op = "is_truncated"
    /\ fl.word = 65535 - 256
    /\ fl.truncated = 1

\* C8: a call of pop_int8 lowers the counter by 1; it returns the octet at
\* the position and advances when the counter stays non-negative, and
\* returns 0 without advancing otherwise.  After any number of pops on a
\* buffer of n octets, min(pops, n) octets are consumed, the position is
\* within the buffer and the counter is n minus the pops.
PopDegrades ==
    /\ cur.size = Len(buffer) - cur.pops
    /\ cur.pos = Min(cur.pops, Len(buffer))
    /\ cur.pos <= Len(buffer)
    /\ ret.op = "pop_int8" =>
          /\ cur.pops = ret.from.pops + 1
          /\ cur.size = ret.from.size - 1
          /\ IF cur.size >= 0
             THEN ret.value = buffer[ret.from.pos + 1] /\ cur.pos = ret.from.pos + 1
             ELSE ret.value = 0 /\ cur.pos = ret.from.pos

PopDegradesWitness ==
    /\ ret.op = "pop_int8"
    /\ Len(buffer) = 2
    /\ cur.pops = 4
    /\ cur.size = -2
    /\ cur.pos = 2
    /\ ret.value = 0

\* C9: with 2 octets left pop_int16 returns 256*b0 + b1, with 4 octets left
\* pop_int32 returns 2^24*b0 + 2^16*b1 + 2^8*b2 + b3 (here as its two 16-bit
\* halves), b0 being the first octet in the buffer; the counter goes down by
\* 2 resp. 4.
BigEndianReads ==
    LET b(k) == buffer[ret.from.pos + k]
    IN  /\ (ret.op = "pop_int16" /\ ret.from.size >= 2) =>
              /\ ret.value = 256 * b(1) + b(2)
              /\ cur.size = ret.from.size - 2
        /\ (ret.op = "pop_int32" /\ ret.from.size >= 4) =>
              /\ ret.value = <<256 * b(1) + b(2), 256 * b(3) + b(4)>>
              /\ cur.size = ret.from.size - 4

\* C10: interpret_question returns on every buffer: every call of
\* interpret_labels reaches a zero length octet, and all the questions and
\* records the header declares are walked.
DecodingTerminates == (pc = "header") ~> (pc = "done")

DecodingTerminatesWitness ==
    /\ pc = "done"
    /\ orig = NoMessage
    /\ TotalCount(message.header) > Len(buffer)
    /\ Len(message.questions) = message.header.query_count
    /\ Len(message.answers) = message.header.answer_count
    /\ Len(message.authorities) = message.header.authority_count
    /\ Len(message.additionals) = message.header.additional_count
    /\ cur.size < 0

====
